---- MODULE Spec2Model ----
(***************************************************************************)
(* A model of mosm-rs (src/main.rs): a single-shot console client that     *)
(* reads a location query, loads an API key, sends one HTTP request,       *)
(* deserializes the JSON body into WeatherData with serde_json, and prints *)
(* a fixed summary.                                                        *)
(*                                                                         *)
(* Representation choices:                                                 *)
(*  - An integer is a sign and three base-2^30 limbs, so that the 32-bit   *)
(*    and 64-bit range checks of serde_json are exact.                     *)
(*  - An f64 is a sign, an integer part (limbs) and thousandths.  The      *)
(*    numerals drawn have at most 15 significant digits, for which the     *)
(*    parse/print pair of serde_json returns the numeral's value.          *)
(*  - A JSON value is a tagged record; an object is a function from its    *)
(*    keys (a document with a duplicated key is not representable).        *)
(*  - JSON strings are TLA+ strings; the query and the API key, whose      *)
(*    length and blankness the code tests, are sequences of characters.    *)
(*  - The glyphs of the wind table are named by their code points.         *)
(***************************************************************************)
EXTENDS Integers, Sequences, FiniteSets, TLC

VARIABLES pc, args, env, input_query, query, user_api_key, api_key,
          requests_sent, request, response, origin, weather, forecast_idx,
          out, err, exit_code

vars == << pc, args, env, input_query, query, user_api_key, api_key,
           requests_sent, request, response, origin, weather, forecast_idx,
           out, err, exit_code >>

----------------------------------------------------------------------------
(* Bounds of the model *)

\* longest forecastday array of a response body (the request asks for 3 days)
MaxDays == 4
\* longest hour array of a forecast day
MaxHours == 2
\* the shapes (days, hours per day) of the documents fields are removed from
MaxTamperDays == 2
MaxTamperHours == 2

----------------------------------------------------------------------------
(* Integers and floats *)

Base == 2^30

Num(neg, l2, l1, l0) == [neg |-> neg, l2 |-> l2, l1 |-> l1, l0 |-> l0]
Nat0(n) == Num(FALSE, 0, 0, n)
Neg0(n) == Num(TRUE, 0, 0, n)

\* i32::MIN ..= i32::MAX
InI32(n) ==
    /\ n.l2 = 0
    /\ \/ n.l1 < 2
       \/ n.neg /\ n.l1 = 2 /\ n.l0 = 0

\* 0 ..= u32::MAX
InU32(n) == ~n.neg /\ n.l2 = 0 /\ n.l1 < 4

\* i64::MIN ..= i64::MAX
InI64(n) ==
    \/ n.l2 < 8
    \/ n.neg /\ n.l2 = 8 /\ n.l1 = 0 /\ n.l0 = 0

\* 0 ..= u64::MAX
InU64(n) == ~n.neg /\ n.l2 < 16

\* the number of bits of a limb
BitLen(x) == IF x = 0 THEN 0 ELSE CHOOSE k \in 1..30 : x < 2^k /\ 2^(k - 1) <= x

\* limbs after a carry out of l0
Carry(neg, l2, l1, l0) ==
    LET c0 == l0 \div Base
        m1 == l1 + c0
    IN  Num(neg, l2 + (m1 \div Base), m1 % Base, l0 % Base)

\* the integer nearest to n that an f64 holds: 53 significant bits, ties to
\* the even mantissa (magnitudes up to 2^65, so only l0 loses bits)
RoundTo53(n) ==
    LET len == IF n.l2 > 0 THEN 60 + BitLen(n.l2) ELSE 30 + BitLen(n.l1)
    IN  IF len <= 53 THEN n
        ELSE LET q == 2^(len - 53)
                 r == n.l0 % q
                 low == n.l0 - r
                 up == r * 2 > q \/ (r * 2 = q /\ (n.l0 \div q) % 2 = 1)
             IN  IF up THEN Carry(n.neg, n.l2, n.l1, low + q)
                 ELSE Num(n.neg, n.l2, n.l1, low)

\* `x as f64` of an integer, and the f64 an integer numeral beyond 64 bits
\* is parsed to
ToF64Exact(n) == [neg |-> n.neg, l2 |-> n.l2, l1 |-> n.l1, l0 |-> n.l0, milli |-> 0]
ToF64(n) == ToF64Exact(RoundTo53(n))

\* `x as u8` of an i32: the low eight bits of the two's complement
AsU8(n) ==
    LET m == n.l0 % 256
    IN  IF n.neg THEN (256 - m) % 256 ELSE m

----------------------------------------------------------------------------
(* JSON values *)

JNull == [t |-> "null"]
JBool(b) == [t |-> "bool", b |-> b]
JStr(s) == [t |-> "str", s |-> s]
\* a numeral without fraction or exponent
JInt(n) == [t |-> "int", n |-> n]
\* a numeral with a fraction
JDec(neg, whole, milli) ==
    [t |-> "dec", x |-> [neg |-> neg, l2 |-> 0, l1 |-> 0, l0 |-> whole, milli |-> milli]]
JArr(a) == [t |-> "arr", a |-> a]
JObj(o) == [t |-> "obj", o |-> o]
\* text that is not JSON
Malformed == [t |-> "malformed"]

----------------------------------------------------------------------------
(* The response schema *)

Field(name, ty) == [field |-> name, key |-> name, ty |-> ty]
\* #[serde(rename = "...")]
Renamed(name, key, ty) == [field |-> name, key |-> key, ty |-> ty]

\* struct AirQuality (main.rs:6-20)
AirQuality ==
    << Field("co", "f64"),
       Field("no2", "f64"),
       Field("o3", "f64"),
       Field("so2", "f64"),
       Field("pm2_5", "f64"),
       Field("pm10", "f64"),
       Renamed("us_epa_index", "us-epa-index", "i32"),
       Renamed("gb_defra_index", "gb-defra-index", "i32") >>

\* struct Condition (main.rs:23-28)
Condition ==
    << Field("text", "String"),
       Field("icon", "String"),
       Field("code", "i32") >>

\* struct Current (main.rs:31-67)
Current ==
    << Field("last_updated_epoch", "i32"),
       Field("last_updated", "String"),
       Field("temp_c", "f64"),
       Field("temp_f", "f64"),
       Field("is_day", "i32"),
       Field("condition", "Condition"),
       Field("wind_mph", "f64"),
       Field("wind_kph", "f64"),
       Field("wind_degree", "i32"),
       Field("wind_dir", "String"),
       Field("pressure_mb", "f64"),
       Field("pressure_in", "f64"),
       Field("precip_mm", "f64"),
       Field("precip_in", "f64"),
       Field("humidity", "i32"),
       Field("cloud", "i32"),
       Field("feelslike_c", "f64"),
       Field("feelslike_f", "f64"),
       Field("windchill_c", "f64"),
       Field("windchill_f", "f64"),
       Field("heatindex_c", "f64"),
       Field("heatindex_f", "f64"),
       Field("dewpoint_c", "f64"),
       Field("dewpoint_f", "f64"),
       Field("vis_km", "f64"),
       Field("vis_miles", "f64"),
       Field("uv", "f64"),
       Field("gust_mph", "f64"),
       Field("gust_kph", "f64"),
       Field("air_quality", "AirQuality"),
       Field("short_rad", "f64"),
       Field("diff_rad", "f64"),
       Field("dni", "f64"),
       Field("gti", "f64") >>

\* struct Location (main.rs:70-80)
Location ==
    << Field("name", "String"),
       Field("region", "String"),
       Field("country", "String"),
       Field("lat", "f64"),
       Field("lon", "f64"),
       Field("tz_id", "String"),
       Field("localtime_epoch", "i32"),
       Field("localtime", "String") >>

\* struct Day (main.rs:83-106)
Day ==
    << Field("maxtemp_c", "f64"),
       Field("maxtemp_f", "f64"),
       Field("mintemp_c", "f64"),
       Field("mintemp_f", "f64"),
       Field("avgtemp_c", "f64"),
       Field("avgtemp_f", "f64"),
       Field("maxwind_mph", "f64"),
       Field("maxwind_kph", "f64"),
       Field("totalprecip_mm", "f64"),
       Field("totalprecip_in", "f64"),
       Field("totalsnow_cm", "f64"),
       Field("avgvis_km", "f64"),
       Field("avgvis_miles", "f64"),
       Field("avghumidity", "u32"),
       Field("daily_will_it_rain", "i32"),
       Field("daily_chance_of_rain", "i32"),
       Field("daily_will_it_snow", "i32"),
       Field("daily_chance_of_snow", "i32"),
       Field("condition", "Condition"),
       Field("uv", "f64"),
       Field("air_quality", "AirQuality") >>

\* struct Astro (main.rs:109-119)
Astro ==
    << Field("sunrise", "String"),
       Field("sunset", "String"),
       Field("moonrise", "String"),
       Field("moonset", "String"),
       Field("moon_phase", "String"),
       Field("moon_illumination", "u32"),
       Field("is_moon_up", "i32"),
       Field("is_sun_up", "i32") >>

\* struct Hour (main.rs:122-163)
Hour ==
    << Field("time_epoch", "i64"),
       Field("time", "String"),
       Field("temp_c", "f64"),
       Field("temp_f", "f64"),
       Field("is_day", "i32"),
       Field("condition", "Condition"),
       Field("wind_mph", "f64"),
       Field("wind_kph", "f64"),
       Field("wind_degree", "i32"),
       Field("wind_dir", "String"),
       Field("pressure_mb", "f64"),
       Field("pressure_in", "f64"),
       Field("precip_mm", "f64"),
       Field("precip_in", "f64"),
       Field("snow_cm", "f64"),
       Field("humidity", "i32"),
       Field("cloud", "i32"),
       Field("feelslike_c", "f64"),
       Field("feelslike_f", "f64"),
       Field("windchill_c", "f64"),
       Field("windchill_f", "f64"),
       Field("heatindex_c", "f64"),
       Field("heatindex_f", "f64"),
       Field("dewpoint_c", "f64"),
       Field("dewpoint_f", "f64"),
       Field("will_it_rain", "i32"),
       Field("chance_of_rain", "i32"),
       Field("will_it_snow", "i32"),
       Field("chance_of_snow", "i32"),
       Field("vis_km", "f64"),
       Field("vis_miles", "f64"),
       Field("gust_kph", "f64"),
       Field("gust_mph", "f64"),
       Field("uv", "f64"),
       Field("air_quality", "AirQuality"),
       Field("short_rad", "f64"),
       Field("diff_rad", "f64"),
       Field("dni", "f64"),
       Field("gti", "f64") >>

\* struct ForecastDay (main.rs:166-178)
ForecastDay ==
    << Field("date", "String"),
       Field("date_epoch", "i64"),
       Field("day", "Day"),
       Field("astro", "Astro"),
       Field("hour", "Vec<Hour>") >>

\* struct Forecast (main.rs:181-185)
Forecast ==
    << Field("forecastday", "Vec<ForecastDay>") >>

\* struct WeatherData (main.rs:188-196)
WeatherData ==
    << Field("location", "Location"),
       Field("current", "Current"),
       Field("forecast", "Forecast") >>
StructNames ==
    {"AirQuality", "Condition", "Current", "Location", "Day", "Astro", "Hour",
     "ForecastDay", "Forecast", "WeatherData"}

Fields(ty) ==
    CASE ty = "AirQuality" -> AirQuality
      [] ty = "Condition" -> Condition
      [] ty = "Current" -> Current
      [] ty = "Location" -> Location
      [] ty = "Day" -> Day
      [] ty = "Astro" -> Astro
      [] ty = "Hour" -> Hour
      [] ty = "ForecastDay" -> ForecastDay
      [] ty = "Forecast" -> Forecast
      [] ty = "WeatherData" -> WeatherData

ElemType(ty) ==
    CASE ty = "Vec<Hour>" -> "Hour"
      [] ty = "Vec<ForecastDay>" -> "ForecastDay"

JsonKeys(fs) == {fs[i].key : i \in 1..Len(fs)}
FieldNames(fs) == {fs[i].field : i \in 1..Len(fs)}

----------------------------------------------------------------------------
(* Deserialization: serde_json::from_str::<WeatherData> *)

Ok(val) == [ok |-> TRUE, val |-> val]
Err == [ok |-> FALSE, val |-> [none |-> TRUE]]

\* serde_json's number parser: an integer numeral is a u64 when it is not
\* negative and fits, an i64 when it is negative and fits, an f64 otherwise
ParseNumber(v) ==
    IF v.t = "dec" THEN [kind |-> "F64", f |-> v.x]
    ELSE IF ~v.n.neg /\ InU64(v.n) THEN [kind |-> "PosInt", n |-> v.n]
    ELSE IF v.n.neg /\ InI64(v.n) THEN [kind |-> "NegInt", n |-> v.n]
    ELSE [kind |-> "F64", f |-> ToF64(v.n)]

IsNumber(v) == v.t \in {"int", "dec"}

\* the derived Deserialize ignores a key that names no field
\* (no struct carries #[serde(deny_unknown_fields)])
UnknownFieldOk_Deny(key) == FALSE
UnknownFieldOk(key) == TRUE

\* a field absent from the object: no field carries #[serde(default)] and
\* none is an Option, so the derive reports `missing field`
MissingField_Default(f) == Ok([none |-> TRUE])
MissingField(f) == Err

\* the integer visitors check the range of the parsed number
DeInteger_Unchecked(ty, v) ==
    IF ~IsNumber(v) THEN Err
    ELSE LET p == ParseNumber(v)
         IN  IF p.kind = "F64" THEN Err ELSE Ok(p.n)
DeInteger(ty, v) ==
    IF ~IsNumber(v) THEN Err
    ELSE LET p == ParseNumber(v)
         IN  IF p.kind = "F64" THEN Err
             ELSE IF ty = "i32" /\ InI32(p.n) THEN Ok(p.n)
             ELSE IF ty = "u32" /\ InU32(p.n) THEN Ok(p.n)
             ELSE IF ty = "i64" /\ InI64(p.n) THEN Ok(p.n)
             ELSE Err

\* f64 accepts every number, converting an integer
DeF64(v) ==
    IF ~IsNumber(v) THEN Err
    ELSE LET p == ParseNumber(v)
         IN  IF p.kind = "F64" THEN Ok(p.f) ELSE Ok(ToF64(p.n))

DeString(v) == IF v.t = "str" THEN Ok(v.s) ELSE Err

RECURSIVE Deserialize(_, _)

\* the results of the fields or elements, each computed once
Visited(r) == r @@ << >>

\* visit_map of a derived struct: every field of fs from the object o; the
\* first field that is missing or fails fails the struct
DeMap(fs, o) ==
    LET r == Visited([i \in 1..Len(fs) |->
                 IF fs[i].key \in DOMAIN o THEN Deserialize(fs[i].ty, o[fs[i].key])
                 ELSE MissingField(fs[i])])
    IN  IF \A i \in 1..Len(fs) : r[i].ok
        THEN Ok([n \in FieldNames(fs) |->
                    r[CHOOSE i \in 1..Len(fs) : fs[i].field = n].val])
        ELSE Err

\* visit_seq of a derived struct: the fields by position, no element left over
DeTuple(fs, a) ==
    IF Len(a) # Len(fs) THEN Err
    ELSE LET r == Visited([i \in 1..Len(fs) |-> Deserialize(fs[i].ty, a[i])])
         IN  IF \A i \in 1..Len(fs) : r[i].ok
             THEN Ok([n \in FieldNames(fs) |->
                         r[CHOOSE i \in 1..Len(fs) : fs[i].field = n].val])
             ELSE Err

\* Vec<T>: the elements in order
DeVec(ety, a) ==
    LET r == Visited([i \in 1..Len(a) |-> Deserialize(ety, a[i])])
    IN  IF \A i \in 1..Len(a) : r[i].ok
        THEN Ok([i \in 1..Len(a) |-> r[i].val])
        ELSE Err

Deserialize(ty, v) ==
    CASE ty = "f64" -> DeF64(v)
      [] ty \in {"i32", "u32", "i64"} -> DeInteger(ty, v)
      [] ty = "String" -> DeString(v)
      [] ty \in {"Vec<Hour>", "Vec<ForecastDay>"} /\ v.t = "arr" ->
            DeVec(ElemType(ty), v.a)
      [] ty \in StructNames /\ v.t = "obj" ->
            IF \A k \in DOMAIN v.o \ JsonKeys(Fields(ty)) : UnknownFieldOk(k)
            THEN DeMap(Fields(ty), v.o)
            ELSE Err
      [] ty \in StructNames /\ v.t = "arr" -> DeTuple(Fields(ty), v.a)
      [] OTHER -> Err

\* serde_json::from_str: text that is not JSON is an error
from_str(body) ==
    IF body.t = "malformed" THEN Err ELSE Deserialize("WeatherData", body)

----------------------------------------------------------------------------
(* Serialization: the derived Serialize of the same structs *)

RECURSIVE Serialize_FieldNames(_, _)
Serialize_FieldNames(ty, x) ==
    IF ty = "f64" THEN [t |-> "dec", x |-> x]
    ELSE IF ty \in {"i32", "u32", "i64"} THEN JInt(x)
    ELSE IF ty = "String" THEN JStr(x)
    ELSE IF ty \in {"Vec<Hour>", "Vec<ForecastDay>"} THEN
        JArr([i \in 1..Len(x) |-> Serialize_FieldNames(ElemType(ty), x[i])])
    ELSE LET fs == Fields(ty)
         IN  JObj([k \in FieldNames(fs) |->
                    LET f == fs[CHOOSE i \in 1..Len(fs) : fs[i].field = k]
                    IN  Serialize_FieldNames(f.ty, x[f.field])])

RECURSIVE Serialize(_, _)
Serialize(ty, x) ==
    IF ty = "f64" THEN [t |-> "dec", x |-> x]
    ELSE IF ty \in {"i32", "u32", "i64"} THEN JInt(x)
    ELSE IF ty = "String" THEN JStr(x)
    ELSE IF ty \in {"Vec<Hour>", "Vec<ForecastDay>"} THEN
        JArr([i \in 1..Len(x) |-> Serialize(ElemType(ty), x[i])])
    ELSE LET fs == Fields(ty)
         IN  JObj([k \in JsonKeys(fs) |->
                    LET f == fs[CHOOSE i \in 1..Len(fs) : fs[i].key = k]
                    IN  Serialize(f.ty, x[f.field])])

----------------------------------------------------------------------------
(* The lookup tables *)

\* get_wind_arrows: the 16 compass abbreviations, glyphs by code point
get_wind_arrows ==
    [k \in {"N", "NNE", "NE", "ENE", "E", "ESE", "SE", "SSE",
            "S", "SSW", "SW", "WSW", "W", "WNW", "NW", "NNW"} |->
        CASE k \in {"N", "NNW"} -> "U+2B06"
          [] k \in {"NNE", "NE"} -> "U+2197"
          [] k \in {"ENE", "E"} -> "U+27A1"
          [] k \in {"ESE", "SE"} -> "U+2198"
          [] k \in {"SSE", "S"} -> "U+2B07"
          [] k \in {"SSW", "SW"} -> "U+2199"
          [] k \in {"WSW", "W"} -> "U+2B05"
          [] k \in {"WNW", "NW"} -> "U+2196"]

\* get_us_epa_index: HashMap<u8, &str>
get_us_epa_index ==
    [k \in 1..6 |->
        CASE k = 1 -> "Good"
          [] k = 2 -> "Moderate"
          [] k = 3 -> "Unhealthy for sensitive group"
          [] k = 4 -> "Unhealthy"
          [] k = 5 -> "Very Unhealthy"
          [] k = 6 -> "Hazardous"]

\* get_wind_arrows().get(wind_dir).unwrap_or(&"U+2753")
WindGlyph_NoFallback(wind_dir) ==
    IF wind_dir \in DOMAIN get_wind_arrows THEN get_wind_arrows[wind_dir]
    ELSE get_wind_arrows["N"]
WindGlyph(wind_dir) ==
    IF wind_dir \in DOMAIN get_wind_arrows THEN get_wind_arrows[wind_dir]
    ELSE "U+2753"

\* get_us_epa_index().get(&(us_epa_index as u8)).unwrap_or(&"Unknown")
AqiLabel(us_epa_index) ==
    LET k == AsU8(us_epa_index)
    IN  IF k \in DOMAIN get_us_epa_index THEN get_us_epa_index[k] ELSE "Unknown"

----------------------------------------------------------------------------
(* The lines main prints *)

\* {:.1} of an f64, in tenths; the numerals drawn for pm2_5 and pm10 are not
\* halfway between two tenths
Fmt1(x) ==
    LET t == (x.milli + 50) \div 100
    IN  [neg |-> x.neg, l2 |-> x.l2, l1 |-> x.l1, l0 |-> x.l0 + (t \div 10),
         tenth |-> t % 10]

\* println!("<>{}<>", "-".repeat(70))
SeparatorShort == [kind |-> "separator", dashes |-> 69]
Separator == [kind |-> "separator", dashes |-> 70]

LocationLine(w) ==
    [kind |-> "location", name |-> w.location.name, region |-> w.location.region,
     country |-> w.location.country, localtime |-> w.location.localtime]

CurrentLine(w) ==
    [kind |-> "current", text |-> w.current.condition.text,
     temp_c |-> w.current.temp_c, temp_f |-> w.current.temp_f, uv |-> w.current.uv]

FeelsLikeLine(w) ==
    [kind |-> "feels_like", feelslike_c |-> w.current.feelslike_c,
     feelslike_f |-> w.current.feelslike_f, humidity |-> w.current.humidity,
     precip_mm |-> w.current.precip_mm]

WindLine(w) ==
    [kind |-> "wind", glyph |-> WindGlyph(w.current.wind_dir),
     wind_kph |-> w.current.wind_kph, wind_mph |-> w.current.wind_mph,
     dewpoint_c |-> w.current.dewpoint_c, dewpoint_f |-> w.current.dewpoint_f]

AqiLine(w) ==
    [kind |-> "aqi", label |-> AqiLabel(w.current.air_quality.us_epa_index),
     pm2_5 |-> Fmt1(w.current.air_quality.pm2_5),
     pm10 |-> Fmt1(w.current.air_quality.pm10)]

ForecastHeader == [kind |-> "forecast_header"]

ForecastLine(forecast_day) ==
    [kind |-> "forecast", date |-> forecast_day.date,
     maxtemp_c |-> forecast_day.day.maxtemp_c,
     maxtemp_f |-> forecast_day.day.maxtemp_f,
     text |-> forecast_day.day.condition.text,
     totalprecip_mm |-> forecast_day.day.totalprecip_mm,
     uv |-> forecast_day.day.uv]

----------------------------------------------------------------------------
(* Strings the code measures: sequences of characters *)

Whitespace == {" ", "\t", "\n", "\r"}
\* s.trim().is_empty()
IsBlank(s) == \A i \in 1..Len(s) : s[i] \in Whitespace

\* let user_api_min_length: usize = 20
user_api_min_length == 20
\* let days: u32 = 3
days == 3

Repeat(c, n) == [i \in 1..n |-> c]

\* the key fetch_parsed_json passes to load_api_key
BuiltInKey ==
    << "2", "a", "e", "d", "5", "5", "8", "6", "4", "0", "c", "6", "4", "a", "d",
       "d", "9", "2", "7", "1", "3", "5", "8", "1", "9", "2", "5", "0", "1", "0",
       "8" >>

----------------------------------------------------------------------------
(* The inputs: command lines, typed lines, keys, environment, responses *)

ArgVectors ==
    { << <<"m", "o", "s", "m">> >>,
      << <<"m", "o", "s", "m">>, <<"L", "o", "n", "d", "o", "n">> >>,
      << <<"m", "o", "s", "m">>, <<" ", " ">> >>,
      << <<"m", "o", "s", "m">>, <<"N", "e", "w">>, <<"Y", "o", "r", "k">> >> }

\* what read_line leaves in input_query (the line end included; nothing at
\* end of input)
TypedLines ==
    { << >>, <<"\n">>, <<" ", "\t", "\n">>, <<"P", "a", "r", "i", "s", "\n">> }

ProvidedKeys ==
    { BuiltInKey, << >>, <<" ", " ">>,
      Repeat("k", user_api_min_length - 1), Repeat("k", user_api_min_length) }

\* WEATHER_API_KEY after dotenv: absent, or present (its value is not checked)
EnvValues ==
    { [present |-> FALSE, val |-> << >>],
      [present |-> TRUE, val |-> <<"e", "n", "v", "k", "e", "y">>] }

Statuses == {200, 401}

\* a step of a path into a document: a key of an object or an index of an array
Key(k) == [key |-> k, idx |-> 0]
Idx(i) == [key |-> "", idx |-> i]

Dates ==
    << "2025-08-01", "2025-08-02", "2025-08-03", "2025-08-04", "2025-08-05",
       "2025-08-06", "2025-08-07", "2025-08-08" >>

\* the value a sample document gives the k-th field of a struct
SampleLeaf(f, k, seed) ==
    IF f.ty = "String" THEN
        (IF f.key = "wind_dir" THEN JStr("NE")
         ELSE IF f.key = "date" THEN JStr(Dates[((seed \div 1000) % 8) + 1])
         ELSE JStr(f.key))
    ELSE IF f.ty = "f64" THEN
        (IF k % 3 = 0 THEN JInt(Nat0(seed + k))
         ELSE IF k % 3 = 1 THEN JDec(FALSE, seed + k, 340)
         ELSE JDec(TRUE, seed + k, 678))
    ELSE IF f.key \in {"us-epa-index", "gb-defra-index"} THEN JInt(Nat0(2))
    ELSE IF f.ty = "i64" \/ f.key \in {"localtime_epoch", "last_updated_epoch"}
         THEN JInt(Num(FALSE, 0, 1, 680258176 + seed))
    ELSE JInt(Nat0(seed + k))

RECURSIVE SampleObject(_, _, _, _)
\* a conforming object of struct ty: d forecast days of h hours each
SampleObject(ty, seed, d, h) ==
    LET fs == Fields(ty)
    IN  JObj([key \in JsonKeys(fs) |->
            LET k == CHOOSE i \in 1..Len(fs) : fs[i].key = key
                f == fs[k]
            IN  IF f.ty = "Vec<ForecastDay>" THEN
                    JArr([i \in 1..d |-> SampleObject("ForecastDay", 1000 * i, d, h)])
                ELSE IF f.ty = "Vec<Hour>" THEN
                    JArr([j \in 1..h |-> SampleObject("Hour", seed + 100 * j, d, h)])
                ELSE IF f.ty \in StructNames THEN SampleObject(f.ty, seed + k, d, h)
                ELSE SampleLeaf(f, k, seed)])

\* the sample documents, by days and hours per day
SampleDocs ==
    [d \in 0..MaxDays, h \in 0..MaxHours |->
        SampleObject("WeatherData", 0, d, h)]
Doc(d, h) == SampleDocs[d, h]

RECURSIVE Paths(_)
\* the paths of the members of every object of a document
Paths(v) ==
    IF v.t = "obj" THEN
        UNION { {<< Key(k) >>} \cup {<< Key(k) >> \o p : p \in Paths(v.o[k])}
                : k \in DOMAIN v.o }
    ELSE IF v.t = "arr" THEN
        UNION { {<< Idx(i) >> \o p : p \in Paths(v.a[i])} : i \in 1..Len(v.a) }
    ELSE {}

RECURSIVE At(_, _)
At(v, p) ==
    IF p = << >> THEN v
    ELSE IF v.t = "obj" THEN At(v.o[p[1].key], Tail(p))
    ELSE At(v.a[p[1].idx], Tail(p))

IsLeaf(v) == v.t \notin {"obj", "arr"}
LeafPaths(v) == {p \in Paths(v) : IsLeaf(At(v, p))}
ObjectPaths(v) == {<< >>} \cup {p \in Paths(v) : At(v, p).t = "obj"}
                   \cup UNION { {p \o << Idx(i) >> : i \in 1..Len(At(v, p).a)}
                                : p \in {q \in Paths(v) : At(v, q).t = "arr"} }

RECURSIVE Remove(_, _)
\* the document without the member at path p
Remove(v, p) ==
    IF v.t = "obj" THEN
        (IF Len(p) = 1
         THEN JObj([k \in DOMAIN v.o \ {p[1].key} |-> v.o[k]])
         ELSE JObj([v.o EXCEPT ![p[1].key] = Remove(@, Tail(p))]))
    ELSE JArr([v.a EXCEPT ![p[1].idx] = Remove(@, Tail(p))])

RECURSIVE Replace(_, _, _)
\* the document with x at path p
Replace(v, p, x) ==
    IF p = << >> THEN x
    ELSE IF v.t = "obj" THEN JObj([v.o EXCEPT ![p[1].key] = Replace(@, Tail(p), x)])
    ELSE JArr([v.a EXCEPT ![p[1].idx] = Replace(@, Tail(p), x)])

\* the document with one more member, "extra", in the object at path p
AddExtra(v, p) ==
    LET o == At(v, p).o
    IN  Replace(v, p, JObj([k \in DOMAIN o \cup {"extra"} |->
                               IF k = "extra" THEN JInt(Nat0(1)) ELSE o[k]]))

RECURSIVE AsTuple(_, _)
\* the positional form of a conforming object, which visit_seq accepts
AsTuple(ty, v) ==
    IF ty \in StructNames THEN
        LET fs == Fields(ty)
        IN  JArr([i \in 1..Len(fs) |-> AsTuple(fs[i].ty, v.o[fs[i].key])])
    ELSE IF ty \in {"Vec<Hour>", "Vec<ForecastDay>"} THEN
        JArr([i \in 1..Len(v.a) |-> AsTuple(ElemType(ty), v.a[i])])
    ELSE v

\* integers at the edges of u8, i32, u32, i64 and u64
I32Max == Num(FALSE, 0, 1, Base - 1)
I32Min == Num(TRUE, 0, 2, 0)
I64Max == Num(FALSE, 7, Base - 1, Base - 1)
I64Min == Num(TRUE, 8, 0, 0)
IntEdges ==
    { Nat0(0), Nat0(1), Nat0(6), Nat0(7), Nat0(255), Nat0(256), Nat0(257),
      Neg0(1), Neg0(255), I32Max, Num(FALSE, 0, 2, 0), I32Min, Num(TRUE, 0, 2, 1),
      Num(FALSE, 0, 3, Base - 1), Num(FALSE, 0, 4, 0), I64Max, Num(FALSE, 8, 0, 0),
      I64Min, Num(TRUE, 8, 0, 1), Num(FALSE, 15, Base - 1, Base - 1),
      Num(FALSE, 16, 0, 0) }

TestValues ==
    {JInt(n) : n \in IntEdges}
        \cup {JDec(FALSE, 1, 500), JStr("x"), JNull, JBool(TRUE), JArr(<< >>),
              JObj(<< >>)}

WindStrings ==
    DOMAIN get_wind_arrows \cup {"", "n", "N ", " N", "XXX", "North", "nne"}

AqiIndices ==
    {Nat0(n) : n \in (0..7) \cup {255, 256, 257, 262, 263, 513}}
        \cup {Neg0(1), Neg0(250), Neg0(255), Neg0(256), I32Max, I32Min,
              Num(FALSE, 0, 2, 0)}

WindDirPath == << Key("current"), Key("wind_dir") >>
EpaIndexPath == << Key("current"), Key("air_quality"), Key("us-epa-index") >>

\* a response body: a sample document, whole or changed in one place
Case(kind, d, h, path, val) ==
    [kind |-> kind, d |-> d, h |-> h, path |-> path, val |-> val]

Body(c) ==
    CASE c.kind = "plain" -> Doc(c.d, c.h)
      [] c.kind \in {"malformed", "unreadable"} -> Malformed
      [] c.kind = "tuple" -> AsTuple("WeatherData", Doc(c.d, c.h))
      [] c.kind = "removed" -> Remove(Doc(c.d, c.h), c.path)
      [] c.kind = "extra" -> AddExtra(Doc(c.d, c.h), c.path)
      [] c.kind = "value" -> Replace(Doc(c.d, c.h), c.path, c.val)

NoCase == Case("none", 0, 0, << >>, JNull)
MalformedCase == Case("malformed", 0, 0, << >>, JNull)
\* a body response.text() cannot read or decode
UnreadableCase == Case("unreadable", 0, 0, << >>, JNull)

\* the bodies the server may answer with
NetworkCases ==
    {Case("plain", d, h, << >>, JNull) : d \in 0..MaxDays, h \in 0..MaxHours}
        \cup {MalformedCase, UnreadableCase}
        \cup {Case("value", 1, 1, WindDirPath, JStr(s)) : s \in WindStrings}
        \cup {Case("value", 1, 1, EpaIndexPath, JInt(n)) : n \in AqiIndices}
        \cup {Case("removed", 1, 1, EpaIndexPath, JNull),
              Case("extra", 1, 1, << Key("current") >>, JNull)}

TamperShapes == (0..MaxTamperDays) \X (0..MaxTamperHours)

\* the bodies deserialization is examined on
DecodeCases ==
    {Case("plain", s[1], s[2], << >>, JNull) : s \in TamperShapes}
        \cup {MalformedCase, Case("tuple", 1, 1, << >>, JNull)}
        \cup UNION { {Case("removed", s[1], s[2], p, JNull) : p \in Paths(Doc(s[1], s[2]))}
                     : s \in TamperShapes }
        \cup UNION { {Case("extra", s[1], s[2], p, JNull) : p \in ObjectPaths(Doc(s[1], s[2]))}
                     : s \in TamperShapes }
        \cup {Case("value", 1, 1, p, x) : p \in LeafPaths(Doc(1, 1)), x \in TestValues}

----------------------------------------------------------------------------
(* The program *)

NoWeather == [none |-> TRUE]
NoRequest == [none |-> TRUE]
NoResponse == [none |-> TRUE]
Running == 0 - 1

Init ==
    /\ pc = "main"
    /\ args \in ArgVectors
    /\ env \in EnvValues
    /\ input_query = << >>
    /\ query = << >>
    /\ user_api_key = << >>
    /\ api_key = << >>
    /\ requests_sent = 0
    /\ request = NoRequest
    /\ response = NoResponse
    /\ origin = NoCase
    /\ weather = NoWeather
    /\ forecast_idx = 0
    /\ out = << >>
    /\ err = << >>
    /\ exit_code = Running

\* std::process::exit(0)
Exit0 == pc' = "exited" /\ exit_code' = 0
\* a panic: the message on stderr, exit status 101
Panic(msg) ==
    /\ pc' = "panicked"
    /\ exit_code' = 101
    /\ err' = Append(err, [kind |-> "panic", msg |-> msg])

\* main: more than one argument
InvalidArgument ==
    /\ pc = "main"
    /\ Len(args) > 2
    /\ out' = Append(out, [kind |-> "invalid_argument"])
    /\ Exit0
    /\ UNCHANGED << args, env, input_query, query, user_api_key, api_key,
                    requests_sent, request, response, origin, weather,
                    forecast_idx, err >>

\* main: one argument that is not blank
QueryFromArgument ==
    /\ pc = "main"
    /\ ~(Len(args) > 2)
    /\ Len(args) = 2 /\ ~IsBlank(args[2])
    /\ query' = args[2]
    /\ pc' = "fetch"
    /\ UNCHANGED << args, env, input_query, user_api_key, api_key, requests_sent,
                    request, response, origin, weather, forecast_idx, out, err,
                    exit_code >>

\* main: otherwise the query is read from the console; read_line returns a
\* line (none at end of input) or fails
get_query_from_user ==
    /\ pc = "main"
    /\ ~(Len(args) > 2)
    /\ ~(Len(args) = 2 /\ ~IsBlank(args[2]))
    /\ \/ \E line \in TypedLines :
            /\ input_query' = line
            /\ IF IsBlank(line)
               THEN /\ out' = out \o << [kind |-> "prompt"], [kind |-> "no_location"],
                                        [kind |-> "query_help"] >>
                    /\ Exit0
                    /\ UNCHANGED query
               ELSE /\ out' = Append(out, [kind |-> "prompt"])
                    /\ query' = line
                    /\ pc' = "fetch"
                    /\ UNCHANGED exit_code
            /\ UNCHANGED err
       \/ /\ out' = Append(out, [kind |-> "prompt"])
          /\ Panic("Failed to read line")
          /\ UNCHANGED << input_query, query >>
    /\ UNCHANGED << args, env, user_api_key, api_key, requests_sent, request,
                    response, origin, weather, forecast_idx >>

\* the first statement of fetch_parsed_json
load_api_key_Unchecked ==
    /\ pc = "fetch"
    /\ \E key \in ProvidedKeys :
         /\ user_api_key' = key
         /\ IF IsBlank(key)
            THEN IF env.present
                 THEN /\ api_key' = env.val
                      /\ pc' = "request"
                      /\ UNCHANGED << err, exit_code >>
                 ELSE /\ err' = Append(err, [kind |-> "env_error"])
                      /\ Exit0
                      /\ UNCHANGED api_key
            ELSE /\ api_key' = key
                 /\ pc' = "request"
                 /\ UNCHANGED << err, exit_code >>
    /\ UNCHANGED << args, env, input_query, query, requests_sent, request,
                    response, origin, weather, forecast_idx, out >>
load_api_key ==
    /\ pc = "fetch"
    /\ \E key \in ProvidedKeys :
         /\ user_api_key' = key
         /\ IF IsBlank(key)
            THEN IF env.present
                 THEN /\ api_key' = env.val
                      /\ pc' = "request"
                      /\ UNCHANGED << err, exit_code >>
                 ELSE /\ err' = Append(err, [kind |-> "env_error"])
                      /\ Exit0
                      /\ UNCHANGED api_key
            ELSE IF Len(key) < user_api_min_length
            THEN /\ err' = Append(err, [kind |-> "invalid_key"])
                 /\ Exit0
                 /\ UNCHANGED api_key
            ELSE /\ api_key' = key
                 /\ pc' = "request"
                 /\ UNCHANGED << err, exit_code >>
    /\ UNCHANGED << args, env, input_query, query, requests_sent, request,
                    response, origin, weather, forecast_idx, out >>

\* reqwest::blocking::get(url): the URL is built from the key and the query
\* (Url::parse of the fixed absolute prefix does not fail); the transport
\* fails, or answers with a status and a body
send_request ==
    /\ pc = "request"
    /\ requests_sent' = requests_sent + 1
    /\ request' = [key |-> api_key, q |-> query, days |-> days, aqi |-> "yes"]
    /\ \/ /\ Panic("Failed to fetch weather data")
          /\ UNCHANGED << response, origin >>
       \/ /\ \E s \in Statuses :
               \E c \in (IF s = 200 THEN NetworkCases ELSE {MalformedCase}) :
                 /\ response' = [status |-> s, readable |-> c.kind # "unreadable",
                                 body |-> Body(c)]
                 /\ origin' = c
          /\ pc' = "status"
          /\ UNCHANGED << err, exit_code >>
    /\ UNCHANGED << args, env, input_query, query, user_api_key, api_key,
                    weather, forecast_idx, out >>

\* if response.status() != 200 { println!(...); exit(0) }
check_status ==
    /\ pc = "status"
    /\ IF response.status # 200
       THEN /\ out' = Append(out, [kind |-> "http_failure", status |-> response.status])
            /\ Exit0
       ELSE /\ pc' = "parse"
            /\ UNCHANGED << out, exit_code >>
    /\ UNCHANGED << args, env, input_query, query, user_api_key, api_key,
                    requests_sent, request, response, origin, weather,
                    forecast_idx, err >>

\* response.text().unwrap(), then serde_json::from_str(&json_body).expect(...);
\* on return query and api_key, which fetch_parsed_json owns, are dropped
parse_PrintsFirst ==
    /\ pc = "parse"
    /\ LET r == IF response.readable THEN from_str(response.body) ELSE Err
       IN  IF r.ok
           THEN /\ weather' = r.val
                /\ pc' = "print_separator"
                /\ query' = << >>
                /\ api_key' = << >>
                /\ UNCHANGED << err, exit_code >>
           ELSE /\ Panic(IF response.readable
                          THEN "Failed to parse Json to the structs"
                          ELSE "called Result::unwrap() on an Err value")
                /\ UNCHANGED << weather, query, api_key >>
    /\ out' = Append(out, Separator)
    /\ UNCHANGED << args, env, input_query, user_api_key, requests_sent, request,
                    response, origin, forecast_idx >>
parse ==
    /\ pc = "parse"
    /\ LET r == IF response.readable THEN from_str(response.body) ELSE Err
       IN  IF r.ok
           THEN /\ weather' = r.val
                /\ pc' = "print_separator"
                /\ query' = << >>
                /\ api_key' = << >>
                /\ UNCHANGED << err, exit_code >>
           ELSE /\ Panic(IF response.readable
                          THEN "Failed to parse Json to the structs"
                          ELSE "called Result::unwrap() on an Err value")
                /\ UNCHANGED << weather, query, api_key >>
    /\ UNCHANGED << args, env, input_query, user_api_key, requests_sent, request,
                    response, origin, forecast_idx, out >>

\* one println! of main: the line, and the statement that follows
Println(at, line, then) ==
    /\ pc = at
    /\ out' = Append(out, line)
    /\ pc' = then
    /\ UNCHANGED << args, env, input_query, query, user_api_key, api_key,
                    requests_sent, request, response, origin, weather, err,
                    exit_code >>

PrintOpeningSeparator ==
    Println("print_separator", Separator, "print_location") /\ UNCHANGED forecast_idx

PrintLocation ==
    Println("print_location", LocationLine(weather), "print_current")
        /\ UNCHANGED forecast_idx

PrintCurrent ==
    Println("print_current", CurrentLine(weather), "print_feels_like")
        /\ UNCHANGED forecast_idx

PrintFeelsLike ==
    Println("print_feels_like", FeelsLikeLine(weather), "print_wind")
        /\ UNCHANGED forecast_idx

PrintWind ==
    Println("print_wind", WindLine(weather), "print_aqi") /\ UNCHANGED forecast_idx

PrintAqi ==
    Println("print_aqi", AqiLine(weather), "print_forecast_header")
        /\ UNCHANGED forecast_idx

PrintForecastHeader ==
    Println("print_forecast_header", ForecastHeader, "forecast") /\ forecast_idx' = 1

\* for forecast_day in weather.forecast.forecastday { println!(...) }
PrintForecastDay_Capped ==
    /\ pc = "forecast"
    /\ forecast_idx <= Len(weather.forecast.forecastday)
    /\ IF forecast_idx <= days
       THEN Println("forecast", ForecastLine(weather.forecast.forecastday[forecast_idx]),
                  "forecast")
       ELSE /\ UNCHANGED << pc, out, args, env, input_query, query, user_api_key,
                            api_key, requests_sent, request, response, origin,
                            weather, err, exit_code >>
    /\ forecast_idx' = forecast_idx + 1
PrintForecastDay ==
    /\ pc = "forecast"
    /\ forecast_idx <= Len(weather.forecast.forecastday)
    /\ Println("forecast", ForecastLine(weather.forecast.forecastday[forecast_idx]),
             "forecast")
    /\ forecast_idx' = forecast_idx + 1

\* the last println!, after which main returns
PrintClosingSeparator_Short ==
    /\ pc = "forecast"
    /\ forecast_idx > Len(weather.forecast.forecastday)
    /\ out' = Append(out, SeparatorShort)
    /\ pc' = "done"
    /\ exit_code' = 0
    /\ UNCHANGED << args, env, input_query, query, user_api_key, api_key,
                    requests_sent, request, response, origin, weather,
                    forecast_idx, err >>
PrintClosingSeparator ==
    /\ pc = "forecast"
    /\ forecast_idx > Len(weather.forecast.forecastday)
    /\ out' = Append(out, Separator)
    /\ pc' = "done"
    /\ exit_code' = 0
    /\ UNCHANGED << args, env, input_query, query, user_api_key, api_key,
                    requests_sent, request, response, origin, weather,
                    forecast_idx, err >>

Next ==
    \/ InvalidArgument
    \/ QueryFromArgument
    \/ get_query_from_user
    \/ load_api_key
    \/ send_request
    \/ check_status
    \/ parse
    \/ PrintOpeningSeparator
    \/ PrintLocation
    \/ PrintCurrent
    \/ PrintFeelsLike
    \/ PrintWind
    \/ PrintAqi
    \/ PrintForecastHeader
    \/ PrintForecastDay
    \/ PrintClosingSeparator

Spec == Init /\ [][Next]_vars

\* deserialization alone: a request has been answered with status 200 and a
\* body, and the body is parsed
InitDecode ==
    /\ pc = "parse"
    /\ args = << <<"m", "o", "s", "m">>, <<"L", "o", "n", "d", "o", "n">> >>
    /\ env = [present |-> FALSE, val |-> << >>]
    /\ input_query = << >>
    /\ query = <<"L", "o", "n", "d", "o", "n">>
    /\ user_api_key = BuiltInKey
    /\ api_key = BuiltInKey
    /\ requests_sent = 1
    /\ request = [key |-> BuiltInKey, q |-> <<"L", "o", "n", "d", "o", "n">>,
                  days |-> days, aqi |-> "yes"]
    /\ \E c \in DecodeCases :
         /\ response = [status |-> 200, readable |-> TRUE, body |-> Body(c)]
         /\ origin = c
    /\ weather = NoWeather
    /\ forecast_idx = 0
    /\ out = << >>
    /\ err = << >>
    /\ exit_code = Running

NextDecode == parse

SpecDecode == InitDecode /\ [][NextDecode]_vars

----------------------------------------------------------------------------
(* Properties *)

SummaryKinds ==
    {"separator", "location", "current", "feels_like", "wind", "aqi",
     "forecast_header", "forecast"}

IsSummary(line) == line.kind \in SummaryKinds
LinesOf(kind) == SelectSeq(out, LAMBDA line : line.kind = kind)
Summary == SelectSeq(out, IsSummary)
NoSummary == \A i \in 1..Len(out) : ~IsSummary(out[i])

\* pc values of main after fetch_parsed_json has returned
Rendering ==
    {"print_separator", "print_location", "print_current", "print_feels_like",
     "print_wind", "print_aqi", "print_forecast_header", "forecast", "done"}

Small(n) == ~n.neg /\ n.l2 = 0 /\ n.l1 = 0

\* C1: whenever the air-quality line has been printed and the deserialized
\* current.air_quality.us_epa_index lies outside 1..6, its label is "Unknown".
C1_OutOfRangeIndexIsUnknown ==
    \A i \in 1..Len(out) :
        out[i].kind = "aqi" =>
            LET n == weather.current.air_quality.us_epa_index
            IN  ~(Small(n) /\ n.l0 \in 1..6) => out[i].label = "Unknown"

Compass16 ==
    {"N", "NNE", "NE", "ENE", "E", "ESE", "SE", "SSE",
     "S", "SSW", "SW", "WSW", "W", "WNW", "NW", "NNW"}

\* C2: once main is past the wind statement exactly one wind line has been
\* printed, whatever string current.wind_dir is; its glyph is the table's
\* value when the string is one of the 16 abbreviations ("N" gives U+2B06) and
\* the fallback U+2753 for every other string.
C2_WindGlyphTotal ==
    /\ pc \in {"print_aqi", "print_forecast_header", "forecast", "done"}
          => Len(LinesOf("wind")) = 1
    /\ \A i \in 1..Len(out) :
          out[i].kind = "wind" =>
              LET s == weather.current.wind_dir
              IN  /\ s \in Compass16 => out[i].glyph = get_wind_arrows[s]
                  /\ s = "N" => out[i].glyph = "U+2B06"
                  /\ s \notin Compass16 => out[i].glyph = "U+2753"

\* a run printed the wind line for the lower-case string "n"
C2_Witness ==
    /\ pc = "done"
    /\ weather.current.wind_dir = "n"
    /\ \E i \in 1..Len(out) : out[i].kind = "wind" /\ out[i].glyph = "U+2753"

\* C3: a body made from a document that deserializes by removing one member
\* of one object, at any depth, fails to deserialize: no WeatherData exists.
C3_RemovedFieldFails ==
    (/\ origin.kind = "removed"
     /\ pc # "parse"
     /\ from_str(Doc(origin.d, origin.h)).ok)
        => pc = "panicked" /\ weather = NoWeather

\* the member co of the air quality of the second hour of the second day
C3_Witness ==
    /\ origin.kind = "removed"
    /\ origin.path = << Key("forecast"), Key("forecastday"), Idx(2), Key("hour"),
                        Idx(2), Key("air_quality"), Key("co") >>
    /\ from_str(Doc(origin.d, origin.h)).ok
    /\ pc = "panicked"

\* C4: a summary line is on standard output only if the body received has
\* deserialized and fetch_parsed_json has returned; after a failed
\* deserialization there is none.
C4_NoSummaryUnlessParsed ==
    /\ ~NoSummary =>
          /\ pc \in Rendering
          /\ response # NoResponse
          /\ response.readable
          /\ from_str(response.body).ok
    /\ (pc = "panicked" /\ response # NoResponse) => NoSummary

\* the body lacked a field, the parse panicked, nothing of the summary is out
C4_Witness ==
    /\ pc = "panicked"
    /\ origin.kind = "removed"
    /\ response.status = 200
    /\ ~from_str(response.body).ok
    /\ NoSummary

\* the f64 a numeral of the input denotes when it is exactly representable
NumeralValue(v) == IF v.t = "int" THEN ToF64Exact(v.n) ELSE v.x

ForecastDayPath == << Key("forecast"), Key("forecastday") >>

\* C5: when main returns, there is one forecast line per element of the
\* input's forecast.forecastday (none for an empty array, more than the 3
\* days requested when the array is longer), the i-th line shows the date,
\* max temperatures, condition text, total precipitation and UV of the i-th
\* element, and each ForecastDay holds the Hour records of its hour array, as
\* many and in the same order.
C5_ForecastLinesFollowInput ==
    pc = "done" =>
        LET fd == At(response.body, ForecastDayPath).a
            lines == LinesOf("forecast")
            held == weather.forecast.forecastday
        IN  /\ Len(lines) = Len(fd)
            /\ Len(held) = Len(fd)
            /\ \A i \in 1..Len(fd) :
                  LET day == fd[i].o["day"].o
                      hours == fd[i].o["hour"].a
                  IN  /\ lines[i].date = fd[i].o["date"].s
                      /\ lines[i].maxtemp_c = NumeralValue(day["maxtemp_c"])
                      /\ lines[i].maxtemp_f = NumeralValue(day["maxtemp_f"])
                      /\ lines[i].text = day["condition"].o["text"].s
                      /\ lines[i].totalprecip_mm = NumeralValue(day["totalprecip_mm"])
                      /\ lines[i].uv = NumeralValue(day["uv"])
                      /\ Len(held[i].hour) = Len(hours)
                      /\ \A j \in 1..Len(hours) :
                            /\ held[i].hour[j].time_epoch = hours[j].o["time_epoch"].n
                            /\ held[i].hour[j].time = hours[j].o["time"].s

\* a body of MaxDays forecast days (more than requested), two hours each
C5_Witness ==
    /\ pc = "done"
    /\ Len(At(response.body, ForecastDayPath).a) > days
    /\ Len(LinesOf("forecast")) = Len(At(response.body, ForecastDayPath).a)
    /\ Len(weather.forecast.forecastday[1].hour) = 2

ExpectedKinds(n) ==
    << "separator", "location", "current", "feels_like", "wind", "aqi",
       "forecast_header" >> \o [i \in 1..n |-> "forecast"] \o << "separator" >>

IsPrefix(s, t) == Len(s) <= Len(t) /\ \A i \in 1..Len(s) : s[i] = t[i]

\* C6: after a successful deserialization the summary lines printed so far
\* are a prefix of: separator, location, current, feels-like, wind, air
\* quality, forecast header, one line per forecast day, separator; nothing
\* else is printed among or after them; when main returns the whole sequence
\* is out, its last line equal to its first and last on standard output.
C6_FixedOrder ==
    weather # NoWeather =>
        LET s == Summary
            kinds == [i \in 1..Len(s) |-> s[i].kind]
            e == ExpectedKinds(Len(weather.forecast.forecastday))
        IN  /\ IsPrefix(kinds, e)
            /\ \A i \in 1..Len(out) : \A j \in i..Len(out) :
                  IsSummary(out[i]) => IsSummary(out[j])
            /\ pc = "done" =>
                  /\ kinds = e
                  /\ s[1] = s[Len(s)]
                  /\ out[Len(out)] = s[Len(s)]

\* a prompted run over a body of four forecast days
C6_Witness ==
    /\ pc = "done"
    /\ Len(out) = 13
    /\ out[1].kind = "prompt"
    /\ out[2] = Separator
    /\ out[13] = Separator
    /\ out[12].kind = "forecast"

FieldOfKey(ty, key) ==
    LET fs == Fields(ty)
    IN  fs[CHOOSE i \in 1..Len(fs) : fs[i].key = key]

RECURSIVE TypeAt(_, _)
\* the declared type of the place a path leads to
TypeAt(ty, p) ==
    IF p = << >> THEN ty
    ELSE IF ty \in StructNames THEN TypeAt(FieldOfKey(ty, p[1].key).ty, Tail(p))
    ELSE TypeAt(ElemType(ty), Tail(p))

RECURSIVE StoredAt(_, _, _)
\* what a deserialized value holds at the place a path leads to
StoredAt(ty, x, p) ==
    IF p = << >> THEN x
    ELSE IF ty \in StructNames
    THEN LET f == FieldOfKey(ty, p[1].key)
         IN  StoredAt(f.ty, x[f.field], Tail(p))
    ELSE StoredAt(ElemType(ty), x[p[1].idx], Tail(p))

IntegerTypes == {"i32", "u32", "i64"}

\* the input was a sample document, whole or with one leaf given another
\* value: an object with the schema's members and no other
Conforming == origin.kind \in {"plain", "value"}
Parsed == pc = "print_separator"

RECURSIVE EquivExact(_, _)
\* the same document: the same members, elements in order, equal strings and
\* numerically equal numbers (5 and 5.0 are equal)
EquivExact(a, b) ==
    IF a.t = "obj" /\ b.t = "obj" THEN
        /\ DOMAIN a.o = DOMAIN b.o
        /\ \A k \in DOMAIN a.o : EquivExact(a.o[k], b.o[k])
    ELSE IF a.t = "arr" /\ b.t = "arr" THEN
        /\ Len(a.a) = Len(b.a)
        /\ \A i \in 1..Len(a.a) : EquivExact(a.a[i], b.a[i])
    ELSE IF IsNumber(a) /\ IsNumber(b) THEN NumeralValue(a) = NumeralValue(b)
    ELSE a = b

RECURSIVE EquivF64(_, _)
\* as EquivExact, but a number written out as a float equals the input
\* numeral when it is the f64 that numeral is read as
EquivF64(a, b) ==
    IF a.t = "obj" /\ b.t = "obj" THEN
        /\ DOMAIN a.o = DOMAIN b.o
        /\ \A k \in DOMAIN a.o : EquivF64(a.o[k], b.o[k])
    ELSE IF a.t = "arr" /\ b.t = "arr" THEN
        /\ Len(a.a) = Len(b.a)
        /\ \A i \in 1..Len(a.a) : EquivF64(a.a[i], b.a[i])
    ELSE IF IsNumber(a) /\ IsNumber(b) THEN
        IF a.t = "int" THEN b.t = "int" /\ a.n = b.n
        ELSE a.x = (IF b.t = "int" THEN ToF64Exact(RoundTo53(b.n)) ELSE b.x)
    ELSE a = b

HyphenatedKeys(aq) ==
    /\ aq.t = "obj"
    /\ {"us-epa-index", "gb-defra-index"} \subseteq DOMAIN aq.o
    /\ DOMAIN aq.o \cap {"us_epa_index", "gb_defra_index"} = {}

\* every AirQuality record of a serialized WeatherData: Current's, each
\* Day's and each Hour's
AllHyphenated(doc) ==
    /\ HyphenatedKeys(doc.o["current"].o["air_quality"])
    /\ LET fd == doc.o["forecast"].o["forecastday"].a
       IN  \A i \in 1..Len(fd) :
              /\ HyphenatedKeys(fd[i].o["day"].o["air_quality"])
              /\ \A j \in 1..Len(fd[i].o["hour"].a) :
                    HyphenatedKeys(fd[i].o["hour"].a[j].o["air_quality"])

\* C7 as stated: a conforming document that deserializes is serialized back
\* to a document with the same members, array lengths and orders, and the
\* same value in every field, the air-quality indices under the hyphenated
\* keys.
C7_RoundTripExact ==
    (Conforming /\ Parsed) =>
        LET again == Serialize("WeatherData", weather)
        IN  EquivExact(again, response.body) /\ AllHyphenated(again)

\* C7 amended: the same, except that a float field comes back as the f64 its
\* input numeral was read as, which is the numeral's value only when an f64
\* holds that value exactly.
C7_RoundTripF64 ==
    (Conforming /\ Parsed) =>
        LET again == Serialize("WeatherData", weather)
        IN  EquivF64(again, response.body) /\ AllHyphenated(again)

\* a document of one day and one hour went through, an integer numeral in a
\* float field
C7_Witness ==
    /\ Parsed
    /\ origin.kind = "value"
    /\ origin.path = << Key("forecast"), Key("forecastday"), Idx(1), Key("hour"),
                        Idx(1), Key("air_quality"), Key("pm10") >>
    /\ origin.val = JInt(Nat0(7))
    /\ EquivExact(Serialize("WeatherData", weather), response.body)

Mistyped(ty, v) ==
    \/ ty = "String" /\ v.t # "str"
    \/ ty \in IntegerTypes \cup {"f64"} /\ ~IsNumber(v)
    \/ ty \in IntegerTypes /\ v.t = "dec"

ExitedEarly ==
    /\ pc = "exited"
    /\ exit_code = 0
    /\ NoSummary
    /\ weather = NoWeather

\* main chose the console over the command line
Prompted ==
    /\ pc # "main"
    /\ Len(args) <= 2
    /\ ~(Len(args) = 2 /\ ~IsBlank(args[2]))

\* read_line failed: the panic of its expect is on standard error
ReadFailed ==
    \E i \in 1..Len(err) : err[i] = [kind |-> "panic", msg |-> "Failed to read line"]

\* C9: each of the failures below ends the process by exit code 0 with no
\* summary line out and with nothing of the later steps done: more than one
\* argument (no line read, no query); a blank line at the prompt (no key
\* loaded, no request); a provided key that is not blank and shorter than 20,
\* or a blank one with WEATHER_API_KEY absent (no request); a status other
\* than 200 (no WeatherData).  At most one request is sent, with a query that
\* is not blank and the key load_api_key returned.
C9_CollaboratorFailures ==
    /\ pc = "exited" => ExitedEarly
    /\ (Len(args) > 2 /\ pc # "main") =>
          /\ ExitedEarly
          /\ out = << [kind |-> "invalid_argument"] >>
          /\ input_query = << >> /\ query = << >>
          /\ user_api_key = << >> /\ api_key = << >>
          /\ requests_sent = 0
    /\ (Prompted /\ IsBlank(input_query) /\ ~ReadFailed) =>
          /\ ExitedEarly
          /\ query = << >>
          /\ user_api_key = << >> /\ api_key = << >>
          /\ requests_sent = 0
    /\ (~IsBlank(user_api_key) /\ Len(user_api_key) < 20) =>
          ExitedEarly /\ requests_sent = 0 /\ request = NoRequest
    /\ (IsBlank(user_api_key) /\ ~env.present /\ pc \notin {"main", "fetch"}
          /\ ~ReadFailed) =>
          ExitedEarly /\ requests_sent = 0 /\ request = NoRequest
    /\ (response # NoResponse /\ response.status # 200 /\ pc # "status") =>
          ExitedEarly /\ requests_sent = 1
    /\ requests_sent <= 1
    /\ requests_sent = 1 =>
          /\ ~IsBlank(request.q)
          /\ IF IsBlank(user_api_key)
             THEN env.present /\ request.key = env.val
             ELSE Len(user_api_key) >= 20 /\ request.key = user_api_key

\* a provided key of 19 characters ended the run before any request
C9_Witness ==
    /\ pc = "exited"
    /\ exit_code = 0
    /\ Len(user_api_key) = 19
    /\ ~IsBlank(user_api_key)
    /\ requests_sent = 0

LocaltimeEpochPath == << Key("location"), Key("localtime_epoch") >>
LastUpdatedEpochPath == << Key("current"), Key("last_updated_epoch") >>
DateEpochPath == << Key("forecast"), Key("forecastday"), Idx(1), Key("date_epoch") >>
TimeEpochPath ==
    << Key("forecast"), Key("forecastday"), Idx(1), Key("hour"), Idx(1),
       Key("time_epoch") >>

\* 2^31, -2^31 - 1, 2^32 - 1, 2^32, 2^63 - 1, -2^63, 2^63, -2^63 - 1,
\* 2^64 - 1, 2^64
OutsideI32 ==
    { Num(FALSE, 0, 2, 0), Num(TRUE, 0, 2, 1), Num(FALSE, 0, 3, Base - 1),
      Num(FALSE, 0, 4, 0), Num(FALSE, 7, Base - 1, Base - 1), Num(TRUE, 8, 0, 0),
      Num(FALSE, 8, 0, 0), Num(TRUE, 8, 0, 1),
      Num(FALSE, 15, Base - 1, Base - 1), Num(FALSE, 16, 0, 0) }

\* 2^63, -2^63 - 1, 2^64 - 1, 2^64
OutsideI64 ==
    { Num(FALSE, 8, 0, 0), Num(TRUE, 8, 0, 1), Num(FALSE, 15, Base - 1, Base - 1),
      Num(FALSE, 16, 0, 0) }

\* C10: an integer numeral outside the signed 32-bit range at
\* location.localtime_epoch or current.last_updated_epoch fails the whole
\* deserialization; at an hour's time_epoch or a forecast day's date_epoch
\* every numeral of the signed 64-bit range is accepted; and an integer field
\* of a deserialized WeatherData holds the numeral's value, never a wrapped
\* or truncated one.
C10_IntegersRangeChecked ==
    (pc # "parse" /\ origin.kind = "value" /\ origin.val.t = "int") =>
        LET p == origin.path
            n == origin.val.n
        IN  /\ (p \in {LocaltimeEpochPath, LastUpdatedEpochPath} /\ n \in OutsideI32)
                  => pc = "panicked" /\ weather = NoWeather
            /\ (p \in {DateEpochPath, TimeEpochPath} /\ n \notin OutsideI64)
                  => Parsed
            /\ (Parsed /\ TypeAt("WeatherData", p) \in IntegerTypes)
                  => StoredAt("WeatherData", weather, p) = n

\* 2^31 at location.localtime_epoch was refused
C10_Witness ==
    /\ pc = "panicked"
    /\ origin.kind = "value"
    /\ origin.path = LocaltimeEpochPath
    /\ origin.val = JInt(Num(FALSE, 0, 2, 0))
    /\ At(response.body, LocaltimeEpochPath) = JInt(Num(FALSE, 0, 2, 0))
====
